---- MODULE Spec2Model ----
(***************************************************************************)
(* Token lifecycle of campusbook-be: JWTTokenManager and JWTAuthentication *)
(* (src/authentication/authentication.py) over the UserSession table       *)
(* (src/authentication/models.py), driven by the handlers of               *)
(* src/users/views.py.                                                     *)
(*                                                                         *)
(* Time is an integer number of seconds.  A handler that makes more than   *)
(* one store statement is split at the statements, so that the requests of *)
(* two workers interleave exactly where the code holds no lock.            *)
(***************************************************************************)
EXTENDS Integers, Sequences, FiniteSets, TLC

\* ---- bounds ------------------------------------------------------------
MaxTime == 5       \* the clock stops here
MaxSessions == 2   \* rows of user_sessions that may be created
MaxJti == 4        \* uuid4 draws that may be made
MaxJtiCalls == 5   \* the same, in SpecCalls
MaxHeaderLen == 5  \* pieces of an Authorization header
MaxKeyCalls == 3   \* calls of get_or_generate_keys in one process

\* ---- configuration (settings.JWT_*) ------------------------------------
AccessLifetime == 3    \* settings.JWT_ACCESS_TOKEN_LIFETIME, seconds
RefreshLifetime == 4   \* settings.JWT_REFRESH_TOKEN_LIFETIME, seconds

\* An RSA key in PEM: which half it is, where it comes from, and a number
\* that tells the pairs of one source apart.
PrivateKey == <<"private", "settings", 0>>   \* settings.JWT_PRIVATE_KEY

Users == {"u1", "u2"}
Registrants == {"u3"}    \* the emails that a registration may bring
NoAccount == "nobody"   \* an email address that no user has
NoTime == -1            \* no last_login was written
Passwords == {"pw1", "pw2"}
Workers == {"w1", "w2"}
NoSession == 0

VARIABLES
    now,        \* timezone.now()
    users,      \* users table: is_active and password of every user
    sessions,   \* user_sessions table, a sequence; the row id is the index
    nextJti,    \* number of uuid4 values drawn so far
    issued,     \* tokens handed to clients, each with the session it belongs to
    pc,         \* position of every worker inside its current call
    loc,        \* local variables of that call
    resp,       \* the outcome of the call that completed last
    revoked,    \* ids of the sessions for which revoke_token returned True
    pwRevoked,  \* ids of the sessions that existed at a successful password change
    keys        \* the process's key sources and the pairs it was given so far

vars == <<now, users, sessions, nextJti, issued, pc, loc, resp, revoked,
          pwRevoked, keys>>

\* ---- TokenCodec: jwt.encode / jwt.decode --------------------------------
EmailOf(u) == <<u, "@example.com">>
NoEmail == <<>>

\* the public half of an RSA private key
PublicOf(private) == <<"public", private[2], private[3]>>

PublicKey == PublicOf(PrivateKey)   \* settings.JWT_PUBLIC_KEY

\* json: a number is written as its decimal digits and read back from them
\* digits written in the wrong order
RECURSIVE DigitsReversed(_)
DigitsReversed(n) ==
    IF n < 10 THEN <<n>> ELSE <<n % 10>> \o DigitsReversed(n \div 10)

RECURSIVE Digits(_)
Digits(n) == IF n < 10 THEN <<n>> ELSE Append(Digits(n \div 10), n % 10)

RECURSIVE Number(_)
Number(ds) ==
    IF Len(ds) = 1 THEN ds[1]
    ELSE 10 * Number(SubSeq(ds, 1, Len(ds) - 1)) + ds[Len(ds)]

JsonString(s) == <<"string", s>>
JsonNumber(n) == <<"number", Digits(n)>>
JsonValue(v) == IF v[1] = "number" THEN Number(v[2]) ELSE v[2]

\* json.dumps(payload): the members of the object in the order of the dict;
\* a refresh payload has no 'email' key
json_dumps(payload) ==
    <<<<"user_id", JsonString(payload.user_id)>>>>
    \o (IF payload.email = NoEmail THEN <<>>
        ELSE <<<<"email", JsonString(payload.email)>>>>)
    \o <<<<"type", JsonString(payload.type)>>,
         <<"jti", JsonString(payload.jti)>>,
         <<"iat", JsonNumber(payload.iat)>>,
         <<"exp", JsonNumber(payload.exp)>>>>

\* payload.get(name) on the parsed object
JsonGet(text, name, default) ==
    IF \E i \in 1..Len(text) : text[i][1] = name
    THEN JsonValue(text[CHOOSE i \in 1..Len(text) : text[i][1] = name][2])
    ELSE default

\* json.loads(text), read through payload.get
json_loads(text) ==
    [user_id |-> JsonGet(text, "user_id", ""),
     email |-> JsonGet(text, "email", NoEmail),
     type |-> JsonGet(text, "type", ""),
     jti |-> JsonGet(text, "jti", 0),
     iat |-> JsonGet(text, "iat", 0),
     exp |-> JsonGet(text, "exp", 0)]

\* jwt.encode: the claims are serialized and signed with the private key.
\* A token is kept as the claims a decoder reads from it and the signature,
\* which binds them to the key: a token whose payload was altered after
\* signing no longer verifies.
Encode(payload, key) ==
    LET claims == json_loads(json_dumps(payload))
    IN [payload |-> claims, sig |-> <<key, claims>>]

\* the signature was made over these claims with the private half of `public`
SignatureValid(token, public) ==
    PublicOf(token.sig[1]) = public /\ token.sig[2] = token.payload

\* PyJWT: the signature is checked first, then exp <= now is expired.
Decode(token, public) ==
    IF ~SignatureValid(token, public) THEN "InvalidTokenError"
    ELSE IF token.payload.exp <= now THEN "ExpiredSignatureError"
    ELSE "ok"

AccessPayload(u, jti) ==
    [user_id |-> u, email |-> EmailOf(u), type |-> "access", jti |-> jti,
     iat |-> now, exp |-> now + AccessLifetime]

\* a refresh payload that reuses the uuid drawn for the access token
RefreshPayloadWithAccessJti(u, jti) ==
    [user_id |-> u, email |-> NoEmail, type |-> "refresh", jti |-> jti - 1,
     iat |-> now, exp |-> now + RefreshLifetime]

RefreshPayload(u, jti) ==
    [user_id |-> u, email |-> NoEmail, type |-> "refresh", jti |-> jti,
     iat |-> now, exp |-> now + RefreshLifetime]

\* ---- RSAKeyGenerator ------------------------------------------------------
NoPem == <<"", "", 0>>   \* the empty string

\* os.getenv(name): None when the variable is not set, else its text
EnvValues(half) ==
    {[set |-> FALSE, text |-> NoPem],
     [set |-> TRUE, text |-> NoPem],
     [set |-> TRUE, text |-> <<half, "env", 0>>]}

\* a file of the keys directory: absent, unreadable, or a PEM text that may
\* end with a newline
KeyFiles(half) ==
    {[exists |-> FALSE, readable |-> FALSE, text |-> NoPem, newline |-> FALSE],
     [exists |-> TRUE, readable |-> FALSE, text |-> NoPem, newline |-> FALSE]}
    \cup {[exists |-> TRUE, readable |-> TRUE, text |-> <<half, "file", 0>>,
           newline |-> nl] : nl \in BOOLEAN}

\* `if private_key_env and public_key_env`: None and '' are false
Truthy(v) == v.set /\ v.text # NoPem

\* read_text().strip(): the text without the newline at its end
read_text_strip(f) == f.text

\* generate_rsa_key_pair(): a pair that was never made before
generate_rsa_key_pair(made) ==
    [private |-> <<"private", "generated", made + 1>>,
     public |-> <<"public", "generated", made + 1>>]

\* a resolution that looks for each half on its own
get_or_generate_keys_per_half(env, files, made) ==
    LET fresh == generate_rsa_key_pair(made)
        half(e, f, g) == IF Truthy(e) THEN e.text
                         ELSE IF f.exists /\ f.readable THEN read_text_strip(f)
                         ELSE g
    IN [private |-> half(env.private, files.private, fresh.private),
        public |-> half(env.public, files.public, fresh.public),
        made |-> made + 1]

\* The pair returned by a call made with `made` pairs generated so far, and
\* the number generated after it.  A read that raises falls back to
\* generation.
get_or_generate_keys(env, files, made) ==
    IF Truthy(env.private) /\ Truthy(env.public)
    THEN [private |-> env.private.text, public |-> env.public.text,
          made |-> made]
    ELSE IF /\ files.private.exists /\ files.public.exists
            /\ files.private.readable /\ files.public.readable
    THEN [private |-> read_text_strip(files.private),
          public |-> read_text_strip(files.public), made |-> made]
    ELSE [private |-> generate_rsa_key_pair(made).private,
          public |-> generate_rsa_key_pair(made).public, made |-> made + 1]

\* ---- manage.py generate_jwt_keys: the files ------------------------------
\* the values of --output-dir, the default first
DefaultOutputDir == "keys/localhost"
OutputDirs == {DefaultOutputDir, "keys"}

\* os.path.join(output_dir, 'private.pem'), os.path.join(output_dir,
\* 'public.pem'): the working directory is the project directory
CommandPath(output_dir, half) ==
    <<output_dir, IF half = "private" THEN "private.pem" ELSE "public.pem">>

CommandPaths == {CommandPath(d, h) : d \in OutputDirs, h \in {"private", "public"}}

\* keys_dir / 'private_key.pem', keys_dir / 'public_key.pem'
KeyFilePath(half) ==
    <<"keys", IF half = "private" THEN "private_key.pem" ELSE "public_key.pem">>

\* open(path, 'wb').write(pem): the file of that path holds the text; the
\* files that get_or_generate_keys reads are those of KeyFilePath
write_file(k, path, text) ==
    IF path = KeyFilePath("private")
    THEN [k EXCEPT !.files.private = [exists |-> TRUE, readable |-> TRUE,
                                      text |-> text, newline |-> TRUE]]
    ELSE IF path = KeyFilePath("public")
    THEN [k EXCEPT !.files.public = [exists |-> TRUE, readable |-> TRUE,
                                     text |-> text, newline |-> TRUE]]
    ELSE [k EXCEPT !.disk[path] = text]

\* ---- UserSession --------------------------------------------------------
SessionIds == 1..Len(sessions)

\* an expiry check that never fires
is_expired_never(s) == FALSE

is_expired(s) == now > s.expires_at

\* a lookup that forgets the is_active=True filter
SessionsByAccessJtiAnyState(jti, u) ==
    {i \in SessionIds : /\ sessions[i].access_token_jti = jti
                        /\ sessions[i].user = u}

\* UserSession.objects.get(**filter): the ids of the matching rows
SessionsByAccessJti(jti, u) ==
    {i \in SessionIds : /\ sessions[i].access_token_jti = jti
                        /\ sessions[i].user = u
                        /\ sessions[i].is_active}

SessionsByRefreshTokenOfUser(token, u) ==
    {i \in SessionIds : /\ sessions[i].refresh_token = token
                        /\ sessions[i].user = u
                        /\ sessions[i].is_active}

\* a lookup that forgets the is_active=True filter
SessionsByRefreshTokenAnyState(token) ==
    {i \in SessionIds : sessions[i].refresh_token = token}

SessionsByRefreshToken(token) ==
    {i \in SessionIds : /\ sessions[i].refresh_token = token
                        /\ sessions[i].is_active}

ActiveSessionsOf(u) ==
    {i \in SessionIds : sessions[i].user = u /\ sessions[i].is_active}

\* self.is_active = False; self.save(update_fields=['is_active'])
deactivate(i) == [sessions EXCEPT ![i].is_active = FALSE]

\* ---- JWTAuthentication --------------------------------------------------
\* a session check that does not ask whose session it is
_verify_token_session_of_anyone(jti, u) ==
    LET found == {i \in SessionIds : /\ sessions[i].access_token_jti = jti
                                     /\ sessions[i].is_active}
    IN IF found = {} THEN FALSE
       ELSE ~is_expired(sessions[CHOOSE i \in found : TRUE])

_verify_token_session(jti, u) ==
    LET found == SessionsByAccessJti(jti, u)
    IN IF found = {} THEN FALSE
       ELSE ~is_expired(sessions[CHOOSE i \in found : TRUE])

\* a check that trusts every unexpired token that carries a valid signature
_authenticate_token_signature_only(token) ==
    LET d == Decode(token, PublicKey)
    IN IF d = "ExpiredSignatureError" THEN "Token has expired"
       ELSE IF d = "InvalidTokenError" THEN "Invalid token"
       ELSE "ok"

\* The failure detail raised inside _authenticate_token, or "ok".
_authenticate_token(token) ==
    LET d == Decode(token, PublicKey)
        p == token.payload
    IN IF d = "ExpiredSignatureError" THEN "Token has expired"
       ELSE IF d = "InvalidTokenError" THEN "Invalid token"
       ELSE IF p.type # "access" THEN "Invalid token payload"
       ELSE IF p.user_id \notin DOMAIN users \/ ~users[p.user_id].is_active
            THEN "User not found or inactive"
       ELSE IF ~_verify_token_session(p.jti, p.user_id)
            THEN "Token session invalid or expired"
       ELSE "ok"

\* authenticate(): an AuthenticationFailed raised by _authenticate_token is
\* caught by `except Exception` and replaced.
authenticate(token) ==
    LET r == _authenticate_token(token)
    IN IF r = "ok" THEN "ok" ELSE "Authentication failed"

\* ---- the Authorization header -------------------------------------------
\* A header value is a sequence of pieces: a blank, a word, or "T", the
\* compact serialization of the token that the request carries.
HeaderAtoms == {" ", "Bearer", "Basic", "T"}

\* str.lower(), piece by piece
lower(part) ==
    [i \in 1..Len(part) |->
        CASE part[i] = "Bearer" -> "bearer"
          [] part[i] = "Basic" -> "basic"
          [] part[i] = "T" -> "t"
          [] OTHER -> part[i]]

\* str.split(): the maximal runs without a blank, in order
RECURSIVE split(_)
split(text) ==
    IF text = <<>> THEN <<>>
    ELSE IF Head(text) = " " THEN split(Tail(text))
    ELSE LET n == CHOOSE k \in 1..Len(text) :
                     /\ \A i \in 1..k : text[i] # " "
                     /\ (k = Len(text) \/ text[k + 1] = " ")
         IN <<SubSeq(text, 1, n)>> \o split(SubSeq(text, n + 1, Len(text)))

\* a test that also takes a header of blanks for a missing one
HeaderMissingOrBlank(h) ==
    ~h.present \/ \A i \in 1..Len(h.text) : h.text[i] = " "

\* `not auth_header`: the header is absent (None) or the empty string
HeaderMissing(h) == ~h.present \/ h.text = <<>>

\* authenticate(), from the header on: "None", "ok", or the detail of the
\* AuthenticationFailed the caller gets.  A second part that is not a token
\* makes jwt.decode raise DecodeError.
authenticate_header(h) ==
    IF HeaderMissing(h) THEN "None"
    ELSE LET auth_parts == split(h.text)
         IN IF Len(auth_parts) # 2 \/ lower(auth_parts[1]) # <<"bearer">>
            THEN "Authentication failed"
            ELSE IF auth_parts[2] = <<"T">> THEN authenticate(h.token)
            ELSE "Authentication failed"

\* ---- what a client can present -----------------------------------------
IssuedTokens == {i.token : i \in issued}

\* tokens that were not signed with the service's key
ForgedTokens ==
    {Encode([user_id |-> "u1", email |-> EmailOf("u1"), type |-> ty, jti |-> 1,
             iat |-> 0, exp |-> MaxTime + AccessLifetime],
            <<"private", "attacker", 0>>) :
        ty \in {"access", "refresh"}}

Presentable == IssuedTokens \cup ForgedTokens

Idle(p) == pc[p] = "idle"

NoPayload ==
    [user_id |-> "", email |-> NoEmail, type |-> "none", jti |-> 0,
     iat |-> 0, exp |-> 0]
NoToken == Encode(NoPayload, <<"private", "", 0>>)
NoRow ==
    [user |-> "", refresh_token |-> NoToken, access_token_jti |-> 0,
     expires_at |-> 0, is_active |-> FALSE]
NoLocals == [sid |-> NoSession, row |-> NoRow, token |-> NoToken]

HeaderTexts == UNION {[1..n -> HeaderAtoms] : n \in 0..MaxHeaderLen}

\* the requests' headers: none, or a text and the token that "T" stands for
Headers ==
    {[present |-> FALSE, text |-> <<>>, token |-> NoToken]} \cup
    UNION {{[present |-> TRUE, text |-> s, token |-> t] :
                t \in IF \E i \in 1..Len(s) : s[i] = "T"
                      THEN Presentable ELSE {NoToken}} : s \in HeaderTexts}

\* the call that completed last: the token it was given, what its caller got
\* back, and what it logged
\* attempts: the login_attempts rows that the request appended, in order
Response(op, arg, ok, detail, val, log) ==
    [op |-> op, arg |-> arg, ok |-> ok, detail |-> detail, val |-> val,
     log |-> log, attempts |-> <<>>]

\* LoginAttempt.objects.create(success=..., failure_reason=...); the email,
\* the address and the agent of the row are those of the request
LoginAttempt(success, failure_reason) ==
    [success |-> success, failure_reason |-> failure_reason]

LoginResponse(ok, detail, val, log, attempts) ==
    [Response("login", NoToken, ok, detail, val, log) EXCEPT
        !.attempts = attempts]

\* the deployment of the service: the pair of the settings comes from the
\* environment, no pair was asked for yet
DeployedKeys ==
    [env |-> [private |-> [set |-> TRUE, text |-> PrivateKey],
              public |-> [set |-> TRUE, text |-> PublicKey]],
     files |-> [private |-> CHOOSE f \in KeyFiles("private") : ~f.exists,
                public |-> CHOOSE f \in KeyFiles("public") : ~f.exists],
     made |-> 0,
     returned |-> <<>>,
     disk |-> [path \in CommandPaths |-> NoPem],
     commands |-> 0]

Init ==
    /\ now = 0
    /\ users = [u \in Users |-> [is_active |-> TRUE, password |-> "pw1"]]
    /\ sessions = <<>>
    /\ nextJti = 0
    /\ issued = {}
    /\ pc = [p \in Workers |-> "idle"]
    /\ loc = [p \in Workers |-> NoLocals]
    /\ resp = Response("none", NoToken, TRUE, "", 0, "")
    /\ revoked = {}
    /\ pwRevoked = {}
    /\ keys = DeployedKeys

\* the clock advances between any two store statements
Tick ==
    /\ now < MaxTime
    /\ now' = now + 1
    /\ UNCHANGED <<keys, users, sessions, nextJti, issued, pc, loc, resp, revoked,
                   pwRevoked>>

\* UserAdmin, fieldset 'Permissions': an administrator sets User.is_active
SetUserActive(u, b) ==
    /\ users[u].is_active # b
    /\ users' = [users EXCEPT ![u].is_active = b]
    /\ UNCHANGED <<keys, now, sessions, nextJti, issued, pc, loc, resp, revoked,
                   pwRevoked>>

\* ---- JWTTokenManager.create_token_pair ----------------------------------
\* a row that expires with the access token
NewSessionOfAccessLifetime(u, refresh_token, access_jti) ==
    [user |-> u, refresh_token |-> refresh_token,
     access_token_jti |-> access_jti,
     expires_at |-> now + AccessLifetime, is_active |-> TRUE]

NewSession(u, refresh_token, access_jti) ==
    [user |-> u, refresh_token |-> refresh_token,
     access_token_jti |-> access_jti,
     expires_at |-> now + RefreshLifetime, is_active |-> TRUE]

\* django.contrib.auth.authenticate with ModelBackend: the user, when the
\* email has an account, the password matches and the account is active
django_authenticate(u, password) ==
    /\ u \in DOMAIN users
    /\ users[u].password = password
    /\ users[u].is_active

\* LoginSerializer.validate: the text of the ValidationError and the
\* failure_reason of the LoginAttempt row it writes, both "" when it passes,
\* and the rows it appends: one with success=False before authenticate is
\* called, then one for the outcome
LoginSerializer_validate(u, password) ==
    LET begun == <<LoginAttempt(FALSE, "")>>
    IN IF ~django_authenticate(u, password)
       THEN IF u \in DOMAIN users
            THEN [error |-> "Invalid password.",
                  failure_reason |-> "invalid_password",
                  attempts |-> Append(begun, LoginAttempt(FALSE, "invalid_password"))]
            ELSE [error |-> "No account found with this email address.",
                  failure_reason |-> "user_not_found",
                  attempts |-> Append(begun, LoginAttempt(FALSE, "user_not_found"))]
       ELSE IF ~users[u].is_active
       THEN [error |-> "This account has been disabled.",
             failure_reason |-> "account_disabled",
             attempts |-> Append(begun, LoginAttempt(FALSE, "account_disabled"))]
       ELSE [error |-> "", failure_reason |-> "",
             attempts |-> Append(begun, LoginAttempt(TRUE, ""))]

\* a single-session policy: issuing a pair ends the user's other sessions
create_token_pair_single_session(p, u) ==
    LET access_jti == nextJti + 1
        refresh_jti == nextJti + 2
        access_token == Encode(AccessPayload(u, access_jti), PrivateKey)
        refresh_token == Encode(RefreshPayload(u, refresh_jti), PrivateKey)
        sid == Len(sessions) + 1
    IN /\ nextJti' = nextJti + 2
       /\ sessions' = Append([i \in SessionIds |->
                                 IF sessions[i].user = u
                                 THEN [sessions[i] EXCEPT !.is_active = FALSE]
                                 ELSE sessions[i]],
                             NewSession(u, refresh_token, access_jti))
       /\ issued' = issued \cup {[token |-> access_token, sid |-> sid],
                                 [token |-> refresh_token, sid |-> sid]}
       /\ resp' = LoginResponse(TRUE, "Login successful", sid, "",
                       LoginSerializer_validate(u, users[u].password).attempts)

\* one row per user: a new pair takes over the row the user already has
create_token_pair_reusing_row(p, u) ==
    LET access_jti == nextJti + 1
        refresh_jti == nextJti + 2
        access_token == Encode(AccessPayload(u, access_jti), PrivateKey)
        refresh_token == Encode(RefreshPayload(u, refresh_jti), PrivateKey)
        old == {i \in SessionIds : sessions[i].user = u}
        sid == IF old = {} THEN Len(sessions) + 1 ELSE CHOOSE i \in old : TRUE
    IN /\ nextJti' = nextJti + 2
       /\ sessions' = IF old = {}
                      THEN Append(sessions, NewSession(u, refresh_token, access_jti))
                      ELSE [sessions EXCEPT
                              ![sid] = NewSession(u, refresh_token, access_jti)]
       /\ issued' = issued \cup {[token |-> access_token, sid |-> sid],
                                 [token |-> refresh_token, sid |-> sid]}
       /\ resp' = LoginResponse(TRUE, "Login successful", sid, "",
                       LoginSerializer_validate(u, users[u].password).attempts)

\* a pair that is returned although its session row was not stored
create_token_pair_without_row(p, u) ==
    LET access_token == Encode(AccessPayload(u, nextJti + 1), PrivateKey)
        refresh_token == Encode(RefreshPayload(u, nextJti + 2), PrivateKey)
        sid == Len(sessions) + 1
    IN /\ nextJti' = nextJti + 2
       /\ sessions' = sessions
       /\ issued' = issued \cup {[token |-> access_token, sid |-> sid],
                                 [token |-> refresh_token, sid |-> sid]}
       /\ resp' = LoginResponse(TRUE, "Login successful", sid, "",
                       LoginSerializer_validate(u, users[u].password).attempts)

create_token_pair(p, u) ==
    LET access_jti == nextJti + 1
        refresh_jti == nextJti + 2
        access_token == Encode(AccessPayload(u, access_jti), PrivateKey)
        refresh_token == Encode(RefreshPayload(u, refresh_jti), PrivateKey)
        sid == Len(sessions) + 1
    IN /\ nextJti' = nextJti + 2
       /\ sessions' = Append(sessions, NewSession(u, refresh_token, access_jti))
       /\ issued' = issued \cup {[token |-> access_token, sid |-> sid],
                                 [token |-> refresh_token, sid |-> sid]}
       /\ resp' = LoginResponse(TRUE, "Login successful", sid, "",
                       LoginSerializer_validate(u, users[u].password).attempts)

\* LoginAPIView.post: LoginSerializer.validate (authenticate, is_active),
\* then create_token_pair inside transaction.atomic().  An exception raised
\* by jwt.encode or by UserSession.objects.create leaves no row behind and
\* is answered by the handler's `except Exception`.  A login that the
\* serializer rejects is answered 400 'Invalid login credentials' with the
\* serializer's errors as field_errors: their text is the detail.
LoginWithin(p, u, password, cap) ==
    /\ Idle(p)
    /\ IF LoginSerializer_validate(u, password).error = ""
       THEN \E create_fails \in BOOLEAN :
              IF create_fails
              THEN /\ resp' = LoginResponse(FALSE,
                              "Login failed due to server error", 0, "",
                              LoginSerializer_validate(u, password).attempts)
                   /\ UNCHANGED <<sessions, nextJti, issued>>
              ELSE /\ Len(sessions) < MaxSessions
                   /\ nextJti + 2 <= cap
                   /\ create_token_pair(p, u)
       ELSE /\ resp' = LoginResponse(FALSE,
                         LoginSerializer_validate(u, password).error, 0,
                         LoginSerializer_validate(u, password).failure_reason,
                         LoginSerializer_validate(u, password).attempts)
            /\ UNCHANGED <<sessions, nextJti, issued>>
    /\ UNCHANGED <<keys, now, users, pc, loc, revoked, pwRevoked>>

Login(p, u, password) == LoginWithin(p, u, password, MaxJti)

\* ---- RegisterAPIView.post ----------------------------------------------
\* RegisterSerializer: the email is not taken and the two passwords agree
RegisterSerializer_is_valid(u, password, password_confirm) ==
    /\ u \notin DOMAIN users
    /\ password = password_confirm

\* User.objects.create_user
create_user(u, password) ==
    [v \in DOMAIN users \cup {u} |->
        IF v = u THEN [is_active |-> TRUE, password |-> password]
        ELSE users[v]]

\* a registration whose user row is committed before the tokens are made
RegisterWithoutTransaction(p, u, password, password_confirm) ==
    /\ Idle(p)
    /\ IF ~RegisterSerializer_is_valid(u, password, password_confirm)
       THEN /\ resp' = Response("register", NoToken, FALSE,
                                "Registration validation failed", 0, "")
            /\ UNCHANGED <<users, sessions, nextJti, issued>>
       ELSE \E create_fails \in BOOLEAN :
              IF create_fails
              THEN /\ resp' = Response("register", NoToken, FALSE,
                                       "Registration failed due to server error",
                                       0, "Registration error")
                   /\ users' = create_user(u, password)
                   /\ UNCHANGED <<sessions, nextJti, issued>>
              ELSE LET access_token ==
                           Encode(AccessPayload(u, nextJti + 1), PrivateKey)
                       refresh_token ==
                           Encode(RefreshPayload(u, nextJti + 2), PrivateKey)
                       sid == Len(sessions) + 1
                   IN /\ Len(sessions) < MaxSessions
                      /\ nextJti + 2 <= MaxJti
                      /\ users' = create_user(u, password)
                      /\ nextJti' = nextJti + 2
                      /\ sessions' = Append(sessions,
                             NewSession(u, refresh_token, nextJti + 1))
                      /\ issued' = issued \cup
                             {[token |-> access_token, sid |-> sid],
                              [token |-> refresh_token, sid |-> sid]}
                      /\ resp' = Response("register", NoToken, TRUE,
                                          "Registration successful", sid, u)
    /\ UNCHANGED <<keys, now, pc, loc, revoked, pwRevoked>>

\* RegisterAPIView.post: the serializer, then serializer.save() and
\* create_token_pair inside one transaction.atomic().  An exception raised by
\* jwt.encode or by UserSession.objects.create leaves the block, the user
\* row is rolled back, and `except Exception` answers 500.
Register(p, u, password, password_confirm) ==
    /\ Idle(p)
    /\ IF ~RegisterSerializer_is_valid(u, password, password_confirm)
       THEN /\ resp' = Response("register", NoToken, FALSE,
                                "Registration validation failed", 0, "")
            /\ UNCHANGED <<users, sessions, nextJti, issued>>
       ELSE \E create_fails \in BOOLEAN :
              IF create_fails
              THEN /\ resp' = Response("register", NoToken, FALSE,
                                       "Registration failed due to server error",
                                       0, "Registration error")
                   /\ UNCHANGED <<users, sessions, nextJti, issued>>
              ELSE LET access_token ==
                           Encode(AccessPayload(u, nextJti + 1), PrivateKey)
                       refresh_token ==
                           Encode(RefreshPayload(u, nextJti + 2), PrivateKey)
                       sid == Len(sessions) + 1
                   IN /\ Len(sessions) < MaxSessions
                      /\ nextJti + 2 <= MaxJti
                      /\ users' = create_user(u, password)
                      /\ nextJti' = nextJti + 2
                      /\ sessions' = Append(sessions,
                             NewSession(u, refresh_token, nextJti + 1))
                      /\ issued' = issued \cup
                             {[token |-> access_token, sid |-> sid],
                              [token |-> refresh_token, sid |-> sid]}
                      /\ resp' = Response("register", NoToken, TRUE,
                                          "Registration successful", sid, u)
    /\ UNCHANGED <<keys, now, pc, loc, revoked, pwRevoked>>

\* ---- JWTAuthentication.authenticate on a protected endpoint -------------
\* last_login and last_login_ip are columns that no operation reads: the
\* table keeps them out, and the write a request made is kept with its answer.
\* an update whose exception is not caught
_update_user_login_info_unguarded(u, update_fails) ==
    IF update_fails
    THEN [last_login |-> NoTime, raised |-> TRUE, log |-> ""]
    ELSE [last_login |-> now, raised |-> FALSE, log |-> ""]

\* _update_user_login_info: one UPDATE of the user's last_login (and
\* last_login_ip); an exception of the store is caught and logged
_update_user_login_info(u, update_fails) ==
    IF update_fails
    THEN [last_login |-> NoTime, raised |-> FALSE,
          log |-> "Failed to update user login info"]
    ELSE [last_login |-> now, raised |-> FALSE, log |-> ""]

\* authenticate() with its side effect: the answer r of the token checks,
\* then, when they passed, the update; an exception that leaves the update
\* would be caught by `except Exception` of authenticate()
Authenticated(token, r, update_fails) ==
    LET w == _update_user_login_info(token.payload.user_id, update_fails)
    IN IF r # "ok" THEN [detail |-> r, last_login |-> NoTime, log |-> ""]
       ELSE IF w.raised
       THEN [detail |-> "Authentication failed", last_login |-> w.last_login,
             log |-> w.log]
       ELSE [detail |-> "ok", last_login |-> w.last_login, log |-> w.log]

\* the update is reached, and may fail, only after the token checks passed
UpdateOutcomes(r) == IF r = "ok" THEN BOOLEAN ELSE {FALSE}

\* an authentication that closes the expired rows of the token it rejects
VerifyAccessClosingExpired(p, token) ==
    /\ Idle(p)
    /\ \E update_fails \in UpdateOutcomes(authenticate(token)) :
          LET a == Authenticated(token, authenticate(token), update_fails)
          IN resp' = Response("verify", token, a.detail = "ok", a.detail,
                              a.last_login,
                              IF a.log # "" THEN a.log
                              ELSE _authenticate_token(token))
    /\ sessions' = [i \in DOMAIN sessions |->
                       IF /\ sessions[i].access_token_jti = token.payload.jti
                          /\ sessions[i].is_active
                          /\ sessions[i].expires_at <= now
                       THEN [sessions[i] EXCEPT !.is_active = FALSE]
                       ELSE sessions[i]]
    /\ UNCHANGED <<keys, now, users, nextJti, issued, pc, loc, revoked,
                   pwRevoked>>

VerifyAccess(p, token) ==
    /\ Idle(p)
    /\ \E update_fails \in UpdateOutcomes(authenticate(token)) :
          LET a == Authenticated(token, authenticate(token), update_fails)
          IN resp' = Response("verify", token, a.detail = "ok", a.detail,
                              a.last_login,
                              IF a.log # "" THEN a.log
                              ELSE _authenticate_token(token))
    /\ UNCHANGED <<keys, now, users, sessions, nextJti, issued, pc, loc, revoked,
                   pwRevoked>>

\* authenticate() on the Authorization header of the request that is waiting
AuthenticateRequest(p) ==
    /\ Idle(p)
    /\ resp.op = "request"
    /\ \E update_fails \in UpdateOutcomes(authenticate_header(resp.arg)) :
          LET a == Authenticated(resp.arg.token, authenticate_header(resp.arg),
                                 update_fails)
          IN resp' = Response("authenticate", resp.arg, a.detail = "ok",
                              a.detail, a.last_login, a.log)
    /\ UNCHANGED <<keys, now, users, sessions, nextJti, issued, pc, loc, revoked,
                   pwRevoked>>

\* ---- JWTTokenManager.refresh_access_token -------------------------------
\* Everything up to and including `if session.is_expired`: the failure detail,
\* "expired" when the session is to be deactivated, or "ok"; and the row read.
RefreshCheck(token) ==
    LET d == Decode(token, PublicKey)
        pl == token.payload
        found == SessionsByRefreshTokenOfUser(token, pl.user_id)
        sid == IF found = {} THEN NoSession ELSE CHOOSE i \in found : TRUE
    IN IF d # "ok"
       THEN [detail |-> "Invalid or expired refresh token", sid |-> NoSession]
       ELSE IF pl.type # "refresh"
       THEN [detail |-> "Invalid refresh token type", sid |-> NoSession]
       ELSE IF pl.user_id \notin DOMAIN users \/ ~users[pl.user_id].is_active
       THEN [detail |-> "Invalid refresh token", sid |-> NoSession]
       ELSE IF found = {}
       THEN [detail |-> "Invalid refresh token", sid |-> NoSession]
       ELSE IF is_expired(sessions[sid])
       THEN [detail |-> "expired", sid |-> sid]
       ELSE [detail |-> "ok", sid |-> sid]

\* RefreshTokenSerializer: the refresh_token field is required and not blank
RefreshTokenSerializer_is_valid(token) == token # NoToken

\* a refresh that closes the session of the token whenever it refuses it
RefreshBeginWithinClosingRefused(p, token, cap) ==
    /\ Idle(p)
    /\ LET r == RefreshCheck(token)
       IN IF r.detail = "ok"
          THEN /\ nextJti < cap
               /\ nextJti' = nextJti + 1
               /\ pc' = [pc EXCEPT ![p] = "refresh_write"]
               /\ loc' = [loc EXCEPT ![p] =
                     [sid |-> r.sid,
                      row |-> [sessions[r.sid] EXCEPT
                                 !.access_token_jti = nextJti + 1],
                      token |-> Encode(AccessPayload(token.payload.user_id,
                                                     nextJti + 1), PrivateKey)]]
               /\ UNCHANGED <<resp, sessions>>
          ELSE IF r.detail = "expired"
          THEN /\ pc' = [pc EXCEPT ![p] = "refresh_write"]
               /\ loc' = [loc EXCEPT ![p] =
                     [sid |-> r.sid, row |-> sessions[r.sid], token |-> NoToken]]
               /\ UNCHANGED <<nextJti, resp, sessions>>
          ELSE /\ resp' = Response("refresh", token, FALSE, r.detail, 0, "")
               /\ sessions' = [i \in DOMAIN sessions |->
                                 IF sessions[i].refresh_token = token
                                 THEN [sessions[i] EXCEPT !.is_active = FALSE]
                                 ELSE sessions[i]]
               /\ UNCHANGED <<nextJti, pc, loc>>
    /\ UNCHANGED <<keys, now, users, issued, revoked, pwRevoked>>

\* A request without a refresh token is answered by the view before the
\* token manager is called.
RefreshBeginWithin(p, token, cap) ==
    /\ Idle(p)
    /\ LET r == RefreshCheck(token)
       IN IF ~RefreshTokenSerializer_is_valid(token)
          THEN /\ resp' = Response("refresh", token, FALSE,
                                   "Invalid refresh token format", 0, "")
               /\ UNCHANGED <<nextJti, pc, loc>>
          ELSE IF r.detail = "ok"
          THEN /\ nextJti < cap
               /\ nextJti' = nextJti + 1
               /\ pc' = [pc EXCEPT ![p] = "refresh_write"]
               /\ loc' = [loc EXCEPT ![p] =
                     [sid |-> r.sid,
                      row |-> [sessions[r.sid] EXCEPT
                                 !.access_token_jti = nextJti + 1],
                      token |-> Encode(AccessPayload(token.payload.user_id,
                                                     nextJti + 1), PrivateKey)]]
               /\ UNCHANGED resp
          ELSE IF r.detail = "expired"
          THEN /\ pc' = [pc EXCEPT ![p] = "refresh_write"]
               /\ loc' = [loc EXCEPT ![p] =
                     [sid |-> r.sid, row |-> sessions[r.sid], token |-> NoToken]]
               /\ UNCHANGED <<nextJti, resp>>
          ELSE /\ resp' = Response("refresh", token, FALSE, r.detail, 0, "")
               /\ UNCHANGED <<nextJti, pc, loc>>
    /\ UNCHANGED <<keys, now, users, sessions, issued, revoked, pwRevoked>>

RefreshBegin(p, token) == RefreshBeginWithin(p, token, MaxJti)

\* a save() that writes every column of the row as it was read
SaveAllFields(sid, row) == [sessions EXCEPT ![sid] = row]

\* a save() that is never made
SaveNothing(sid, row) == sessions

\* a save() that also rotates the refresh token away
SaveAndRotateRefreshToken(sid, row) ==
    [sessions EXCEPT ![sid].access_token_jti = row.access_token_jti,
                     ![sid].refresh_token = NoToken]

\* an update that is filtered on the row's user instead of its id
SaveLinkIdOfEveryRowOfUser(sid, row) ==
    [i \in SessionIds |->
        IF sessions[i].user = row.user
        THEN [sessions[i] EXCEPT !.access_token_jti = row.access_token_jti]
        ELSE sessions[i]]

\* a save() that also slides the session's expiry forward
SaveAndExtendExpiry(sid, row) ==
    [sessions EXCEPT ![sid].access_token_jti = row.access_token_jti,
                     ![sid].expires_at = now + RefreshLifetime]

\* session.save(update_fields=['access_token_jti'])
save_access_token_jti(sid, row) ==
    [sessions EXCEPT ![sid].access_token_jti = row.access_token_jti]

\* The store write of the call.  On the expired branch (no token was made):
\* session.deactivate(), then AuthenticationFailed('Refresh token expired');
\* otherwise the save of the new link id.
RefreshWrite(p) ==
    /\ pc[p] = "refresh_write"
    /\ IF loc[p].token = NoToken
       THEN /\ sessions' = deactivate(loc[p].sid)
            /\ resp' = Response("refresh", loc[p].row.refresh_token, FALSE,
                                "Refresh token expired", loc[p].sid, "")
            /\ pc' = [pc EXCEPT ![p] = "idle"]
            /\ loc' = [loc EXCEPT ![p] = NoLocals]
       ELSE /\ sessions' = save_access_token_jti(loc[p].sid, loc[p].row)
            /\ pc' = [pc EXCEPT ![p] = "refresh_return"]
            /\ UNCHANGED <<loc, resp>>
    /\ UNCHANGED <<keys, now, users, nextJti, issued, revoked, pwRevoked>>

\* The same write refused by the store: it raises DatabaseError, which
\* refresh_access_token does not catch, and the row is left as it was.
RefreshWriteFails(p) ==
    /\ pc[p] = "refresh_write"
    /\ resp' = Response("refresh", loc[p].row.refresh_token, FALSE,
                        "DatabaseError", loc[p].sid, "")
    /\ pc' = [pc EXCEPT ![p] = "idle"]
    /\ loc' = [loc EXCEPT ![p] = NoLocals]
    /\ UNCHANGED <<keys, now, users, sessions, nextJti, issued, revoked,
                   pwRevoked>>

RefreshReturn(p) ==
    /\ pc[p] = "refresh_return"
    /\ issued' = issued \cup {[token |-> loc[p].token, sid |-> loc[p].sid]}
    /\ resp' = Response("refresh", loc[p].row.refresh_token, TRUE,
                        "Token refreshed successfully", loc[p].sid, "")
    /\ pc' = [pc EXCEPT ![p] = "idle"]
    /\ loc' = [loc EXCEPT ![p] = NoLocals]
    /\ UNCHANGED <<keys, now, users, sessions, nextJti, revoked, pwRevoked>>

\* RefreshTokenAPIView.post: the envelope that answers a call with outcome r.
\* Every exception that leaves refresh_access_token is caught by one
\* `except Exception`.
RefreshTokenAPIView_post(r) ==
    IF r.detail = "Invalid refresh token format"
    THEN [status_code |-> 400, error |-> "ValidationError",
          message |-> "Invalid refresh token format"]
    ELSE IF r.ok
    THEN [status_code |-> 200, error |-> "",
          message |-> "Token refreshed successfully"]
    ELSE [status_code |-> 401, error |-> "TokenRefreshError",
          message |-> "Failed to refresh token"]

\* ---- JWTTokenManager.revoke_token ---------------------------------------
RevokeBegin(p, token) ==
    /\ Idle(p)
    /\ LET found == SessionsByRefreshToken(token)
       IN IF found = {}
          THEN /\ resp' = Response("revoke", token, FALSE, "", 0, "")
               /\ UNCHANGED <<pc, loc>>
          ELSE LET sid == CHOOSE i \in found : TRUE
               IN /\ pc' = [pc EXCEPT ![p] = "revoke_save"]
                  /\ loc' = [loc EXCEPT ![p] =
                        [sid |-> sid, row |-> sessions[sid], token |-> NoToken]]
                  /\ UNCHANGED resp
    /\ UNCHANGED <<keys, now, users, sessions, nextJti, issued, revoked, pwRevoked>>

RevokeSave(p) ==
    /\ pc[p] = "revoke_save"
    /\ sessions' = deactivate(loc[p].sid)
    /\ resp' = Response("revoke", loc[p].row.refresh_token, TRUE, "",
                        loc[p].sid, "")
    /\ revoked' = revoked \cup {loc[p].sid}
    /\ pc' = [pc EXCEPT ![p] = "idle"]
    /\ loc' = [loc EXCEPT ![p] = NoLocals]
    /\ UNCHANGED <<keys, now, users, nextJti, issued, pwRevoked>>

\* ---- LogoutAPIView.post --------------------------------------------------
\* the two logout views: users.views.LogoutAPIView declares
\* permission_classes = [IsAuthenticated]; authentication.views.LogoutAPIView
\* declares none, as the login and register views of its module, and is
\* reached without credentials
LogoutViews == {"users", "authentication"}
RequiresAuthentication(view) == view = "users"
Anonymous == ""   \* request.user of a request without Authorization header

\* request.user: the user of the bearer token, Anonymous without a header;
\* "refused" when authenticate() raises
request_user(bearer) ==
    IF bearer = NoToken THEN Anonymous
    ELSE IF authenticate(bearer) = "ok" THEN bearer.payload.user_id
    ELSE "refused"

\* the request, from the authentication of the caller to the response.
\* revoke_token looks the session up by refresh_token and is_active only;
\* after it returned True the view logs request.user.email, an attribute
\* that AnonymousUser does not have, and `except Exception` answers 500.
\* A save that the store refuses leaves the row and is answered 500.
Logout(p, view, bearer, refresh_token, store_fails) ==
    /\ Idle(p)
    /\ LET caller == request_user(bearer)
           found == SessionsByRefreshToken(refresh_token)
           sid == IF found = {} THEN NoSession ELSE CHOOSE i \in found : TRUE
       IN IF caller = "refused"
          THEN /\ resp' = Response("logout", refresh_token, FALSE,
                                   "Authentication failed", 401, "")
               /\ UNCHANGED <<sessions, revoked>>
          ELSE IF RequiresAuthentication(view) /\ caller = Anonymous
          THEN /\ resp' = Response("logout", refresh_token, FALSE,
                        "Authentication credentials were not provided.", 401, "")
               /\ UNCHANGED <<sessions, revoked>>
          ELSE IF refresh_token = NoToken
          THEN /\ resp' = Response("logout", refresh_token, FALSE,
                                   "Refresh token is required", 400, "")
               /\ UNCHANGED <<sessions, revoked>>
          ELSE IF found = {}
          THEN /\ resp' = Response("logout", refresh_token, FALSE,
                                   "Invalid refresh token", 400, "")
               /\ UNCHANGED <<sessions, revoked>>
          ELSE IF store_fails
          THEN /\ resp' = Response("logout", refresh_token, FALSE,
                                   "Logout failed due to server error", 500,
                                   "DatabaseError")
               /\ UNCHANGED <<sessions, revoked>>
          ELSE /\ sessions' = deactivate(sid)
               /\ revoked' = revoked \cup {sid}
               /\ resp' = IF caller = Anonymous
                          THEN Response("logout", refresh_token, FALSE,
                                        "Logout failed due to server error", 500,
                                        "AttributeError")
                          ELSE Response("logout", refresh_token, TRUE,
                                        "Logout successful", 200, caller)
    /\ UNCHANGED <<keys, now, users, nextJti, issued, pc, loc, pwRevoked>>

\* ---- JWTTokenManager.revoke_all_user_tokens -----------------------------
\* an update that forgets the user=user filter
UpdateDeactivateEveryone(u) ==
    [i \in SessionIds |-> [sessions[i] EXCEPT !.is_active = FALSE]]

\* a revocation that deletes the rows instead of marking them
UpdateDeleteAll(u) ==
    SelectSeq(sessions, LAMBDA row : ~(row.user = u /\ row.is_active))

\* filter(user=user, is_active=True).update(is_active=False): one statement
UpdateDeactivateAll(u) ==
    [i \in SessionIds |->
        IF sessions[i].user = u /\ sessions[i].is_active
        THEN [sessions[i] EXCEPT !.is_active = FALSE]
        ELSE sessions[i]]

revoke_all_user_tokens(u) ==
    [rows |-> UpdateDeactivateAll(u), count |-> Cardinality(ActiveSessionsOf(u))]

RevokeAllUserTokens(p, u) ==
    /\ Idle(p)
    /\ LET r == revoke_all_user_tokens(u)
       IN /\ sessions' = r.rows
          /\ resp' = Response("revoke_all", NoToken, TRUE, "", r.count, "")
    /\ UNCHANGED <<keys, now, users, nextJti, issued, pc, loc, revoked, pwRevoked>>

\* ---- ChangePasswordAPIView.post -----------------------------------------
\* the two statements of the block without transaction.atomic(): the
\* password is saved although the revocation failed
ChangePasswordNoTransaction(u, new_password, store_fails) ==
    IF store_fails
    THEN [users |-> [users EXCEPT ![u].password = new_password],
          rows |-> sessions, committed |-> FALSE]
    ELSE [users |-> [users EXCEPT ![u].password = new_password],
          rows |-> revoke_all_user_tokens(u).rows, committed |-> TRUE]

\* The block under transaction.atomic(): set_password, save, then
\* revoke_all_user_tokens; store_fails is an exception raised by the store
\* at the second statement, which rolls the first one back.
ChangePasswordTransaction(u, new_password, store_fails) ==
    IF store_fails
    THEN [users |-> users, rows |-> sessions, committed |-> FALSE]
    ELSE [users |-> [users EXCEPT ![u].password = new_password],
          rows |-> revoke_all_user_tokens(u).rows, committed |-> TRUE]

\* The request is authenticated first (IsAuthenticated).
ChangePassword(p, token, current_password, new_password, store_fails) ==
    /\ Idle(p)
    /\ \E update_fails \in UpdateOutcomes(authenticate(token)) :
       LET u == token.payload.user_id
           a == Authenticated(token, authenticate(token), update_fails)
       IN IF a.detail # "ok"
          THEN /\ resp' = Response("change_password", token, FALSE,
                                   "Authentication failed", 401, "")
               /\ UNCHANGED <<users, sessions, pwRevoked>>
          ELSE IF users[u].password # current_password
          THEN /\ resp' = Response("change_password", token, FALSE,
                                   "Password validation failed", 400, "")
               /\ UNCHANGED <<users, sessions, pwRevoked>>
          ELSE LET t == ChangePasswordTransaction(u, new_password, store_fails)
               IN /\ users' = t.users
                  /\ sessions' = t.rows
                  /\ IF t.committed
                     THEN /\ resp' = Response("change_password", token, TRUE,
                                   "Password changed successfully", 200, "")
                          /\ pwRevoked' = pwRevoked \cup
                                {i \in SessionIds : sessions[i].user = u}
                     ELSE /\ resp' = Response("change_password", token, FALSE,
                                   "Failed to change password", 500, "")
                          /\ UNCHANGED pwRevoked
    /\ UNCHANGED <<keys, now, nextJti, issued, pc, loc, revoked>>

\* ---- RSAKeyGenerator.get_or_generate_keys, called by the process -------
GetOrGenerateKeys(p) ==
    /\ Idle(p)
    /\ Len(keys.returned) < MaxKeyCalls
    /\ LET r == get_or_generate_keys(keys.env, keys.files, keys.made)
       IN /\ keys' = [keys EXCEPT
                        !.made = r.made,
                        !.returned = Append(@, [private |-> r.private,
                                                public |-> r.public])]
          /\ resp' = Response("get_or_generate_keys", NoToken, TRUE, "",
                              Len(keys.returned) + 1, "")
    /\ UNCHANGED <<now, users, sessions, nextJti, issued, pc, loc, revoked,
                   pwRevoked>>

\* ---- manage.py generate_jwt_keys ----------------------------------------
\* Command.handle: a new pair, written to private.pem and public.pem of the
\* output directory
GenerateJwtKeys(p, output_dir) ==
    /\ Idle(p)
    /\ keys.commands < MaxKeyCalls
    /\ LET private_pem == <<"private", "command", keys.commands + 1>>
           public_pem == PublicOf(private_pem)
           k1 == write_file(keys, CommandPath(output_dir, "private"), private_pem)
           k2 == write_file(k1, CommandPath(output_dir, "public"), public_pem)
       IN keys' = [k2 EXCEPT !.commands = @ + 1]
    /\ resp' = Response("generate_jwt_keys", NoToken, TRUE,
                        "RSA key pair generated successfully!",
                        keys.commands + 1, output_dir)
    /\ UNCHANGED <<now, users, sessions, nextJti, issued, pc, loc, revoked,
                   pwRevoked>>

\* ---- manage.py verify_jwt_keys ------------------------------------------
\* the payloads the command is run with
TestPayloads ==
    {[user_id |-> u, email |-> e, type |-> ty, jti |-> j, iat |-> i, exp |-> x] :
        u \in {"u1", "test-user-123"}, e \in {NoEmail, EmailOf("test")},
        ty \in {"access", "refresh"}, j \in {1, 23}, i \in {0, 10},
        x \in {0, 5, 12, 105}}

\* Command.handle: encode with the private key of the settings, decode with
\* the public key, compare user_id; an exception of jwt.decode is reported
\* by the `except Exception` of the command.
VerifyJwtKeys(p, test_payload) ==
    /\ Idle(p)
    /\ LET token == Encode(test_payload, PrivateKey)
           d == Decode(token, PublicKey)
       IN resp' = Response("verify_jwt_keys", token,
                           d = "ok" /\ token.payload.user_id = test_payload.user_id,
                           IF d # "ok" THEN "JWT configuration test failed"
                           ELSE IF token.payload.user_id = test_payload.user_id
                           THEN "JWT RSA configuration is working correctly!"
                           ELSE "Payload verification failed",
                           0, d)
    /\ UNCHANGED <<keys, now, users, sessions, nextJti, issued, pc, loc, revoked,
                   pwRevoked>>

\* ---- the system --------------------------------------------------------
\* the calls of the token manager and of the authentication class that
\* worker p makes on behalf of the users in `who`
TokenCallsWithin(p, cap) ==
    \/ \E t \in Presentable : VerifyAccess(p, t)
    \/ \E t \in Presentable : RefreshBeginWithin(p, t, cap)
    \/ RefreshWrite(p)
    \/ RefreshReturn(p)
    \/ \E t \in Presentable : RevokeBegin(p, t)
    \/ RevokeSave(p)

TokenCalls(p) == TokenCallsWithin(p, MaxJti)

CoreWithin(p, who, cap) ==
    \/ \E u \in who, pw \in Passwords : LoginWithin(p, u, pw, cap)
    \/ TokenCallsWithin(p, cap)
    \/ \E u \in who : RevokeAllUserTokens(p, u)

Core(p, who) == CoreWithin(p, who, MaxJti)

\* the requests that end outside the token logic: a login with an email
\* that no account has, a refresh body that fails the serializer, and a
\* refresh whose store write is refused
RefusedCallsWithin(p, cap) ==
    \/ \E pw \in Passwords : LoginWithin(p, NoAccount, pw, cap)
    \/ RefreshBeginWithin(p, NoToken, cap)
    \/ RefreshWriteFails(p)

PasswordChange(p, failures) ==
    \E t \in Presentable, cur \in Passwords, new \in Passwords, f \in failures :
        ChangePassword(p, t, cur, new, f)

\* Spec: one request at a time, two users, the clock standing still
Next ==
    \/ \E u \in Users, b \in BOOLEAN : SetUserActive(u, b)
    \/ Core("w1", Users)
    \/ PasswordChange("w1", BOOLEAN)

Spec == Init /\ [][Next]_vars

\* SpecTimed: one request at a time, one user, over the life of the sessions
NextTimed ==
    \/ Tick
    \/ \E b \in BOOLEAN : SetUserActive("u1", b)
    \/ Login("w1", "u1", "pw1")
    \/ TokenCalls("w1")

SpecTimed == Init /\ [][NextTimed]_vars

\* SpecConc: the requests of two workers interleaved at every store statement
NextConc ==
    \E p \in Workers : Core(p, {"u1"}) \/ PasswordChange(p, {FALSE})

SpecConc == Init /\ [][NextConc]_vars

\* SpecCalls: one request at a time, two users, no administrator and no
\* password change; the refused requests included
NextCalls ==
    \/ CoreWithin("w1", Users, MaxJtiCalls)
    \/ RefusedCallsWithin("w1", MaxJtiCalls)

SpecCalls == Init /\ [][NextCalls]_vars

\* SpecRefresh: SpecTimed without the protected endpoints: logins,
\* refreshes and logouts of one user over the life of the sessions
NextRefresh ==
    \/ Tick
    \/ \E b \in BOOLEAN : SetUserActive("u1", b)
    \/ Login("w1", "u1", "pw1")
    \/ \E t \in Presentable : RefreshBegin("w1", t)
    \/ RefreshWrite("w1")
    \/ RefreshReturn("w1")
    \/ \E t \in Presentable : RevokeBegin("w1", t)
    \/ RevokeSave("w1")

SpecRefresh == Init /\ [][NextRefresh]_vars

\* SpecAdmin: one request at a time, two users who log in with their
\* password, and the administrator
NextAdmin ==
    \/ \E u \in Users, b \in BOOLEAN : SetUserActive(u, b)
    \/ \E u \in Users : Login("w1", u, "pw1")
    \/ TokenCalls("w1")

SpecAdmin == Init /\ [][NextAdmin]_vars

\* SpecLogout: one request at a time, two users: logins and logouts
NextLogout ==
    \/ \E u \in Users : Login("w1", u, "pw1")
    \/ \E view \in LogoutViews, bearer \in Presentable \cup {NoToken},
          refresh_token \in Presentable \cup {NoToken}, store_fails \in BOOLEAN :
          Logout("w1", view, bearer, refresh_token, store_fails)

SpecLogout == Init /\ [][NextLogout]_vars

\* SpecRegister: one request at a time; registrations, and the requests of
\* the users that registered
NextRegister ==
    \/ \E u \in Registrants \cup {"u1"}, pw \in Passwords, pwc \in Passwords :
          Register("w1", u, pw, pwc)
    \/ Core("w1", Registrants \cap DOMAIN users)

SpecRegister == Init /\ [][NextRegister]_vars

\* SpecHeader: authenticate() applied to every header; it starts in the
\* state that the first login of u1 leaves, with a request waiting
InitHeader ==
    /\ now = 0
    /\ users = [u \in Users |-> [is_active |-> TRUE, password |-> "pw1"]]
    /\ nextJti = 2
    /\ sessions = <<NewSession("u1", Encode(RefreshPayload("u1", 2), PrivateKey), 1)>>
    /\ issued = {[token |-> Encode(AccessPayload("u1", 1), PrivateKey), sid |-> 1],
                 [token |-> Encode(RefreshPayload("u1", 2), PrivateKey), sid |-> 1]}
    /\ pc = [p \in Workers |-> "idle"]
    /\ loc = [p \in Workers |-> NoLocals]
    /\ revoked = {}
    /\ pwRevoked = {}
    /\ keys = DeployedKeys
    /\ resp \in {Response("request", h, FALSE, "", 0, "") : h \in Headers}

NextHeader == AuthenticateRequest("w1")

SpecHeader == InitHeader /\ [][NextHeader]_vars

\* SpecKeys: a process in every environment of keys, asking for its pair
InitKeys ==
    /\ now = 0
    /\ users = [u \in Users |-> [is_active |-> TRUE, password |-> "pw1"]]
    /\ sessions = <<>>
    /\ nextJti = 0
    /\ issued = {}
    /\ pc = [p \in Workers |-> "idle"]
    /\ loc = [p \in Workers |-> NoLocals]
    /\ resp = Response("none", NoToken, TRUE, "", 0, "")
    /\ revoked = {}
    /\ pwRevoked = {}
    /\ keys \in {[env |-> [private |-> a, public |-> b],
                   files |-> [private |-> c, public |-> d],
                   made |-> 0, returned |-> <<>>,
                   disk |-> [path \in CommandPaths |-> NoPem],
                   commands |-> 0] :
                     a \in EnvValues("private"), b \in EnvValues("public"),
                     c \in KeyFiles("private"), d \in KeyFiles("public")}

NextKeys == GetOrGenerateKeys("w1")

SpecKeys == InitKeys /\ [][NextKeys]_vars

\* SpecKeygen: the same, with the key generation command run in between
NextKeygen ==
    \/ \E d \in OutputDirs : GenerateJwtKeys("w1", d)
    \/ GetOrGenerateKeys("w1")

SpecKeygen == InitKeys /\ [][NextKeygen]_vars

\* SpecCodec: the verification command, run with every test payload
NextCodec == \E pl \in TestPayloads : VerifyJwtKeys("w1", pl)

SpecCodec == Init /\ [][NextCodec]_vars

\* ======================================================================
\* Properties
\* ======================================================================
\* what a call made in the current state would answer
VerifyAccepts(token) == authenticate(token) = "ok"
RefreshAccepts(token) == RefreshCheck(token).detail = "ok"

IssuedFor(sid) == {i.token : i \in {j \in issued : j.sid = sid}}
AccessTokensOf(sid) == {t \in IssuedFor(sid) : t.payload.type = "access"}

\* C1: once revoke_token has returned True for a session, in every later
\* state a refresh_access_token call with the session's refresh token fails
\* and a VerifyAccess with any access token issued for the session fails,
\* whatever the two workers did in between.
C1_RevokedStaysRejected ==
    \A sid \in revoked :
        /\ ~RefreshAccepts(sessions[sid].refresh_token)
        /\ \A t \in IssuedFor(sid) : ~VerifyAccepts(t) /\ ~RefreshAccepts(t)

\* C1 witness: a VerifyAccess with the unexpired access token of a session,
\* made after revoke_token returned True for it, was rejected at the session
\* check.
C1_Witness ==
    /\ resp.op = "verify"
    /\ ~resp.ok
    /\ resp.log = "Token session invalid or expired"
    /\ \E sid \in revoked : resp.arg \in AccessTokensOf(sid)

\* C4: no step of any worker takes a session's is_active from FALSE to TRUE.
C4_InactiveIsTerminal ==
    [][\A i \in SessionIds : ~sessions[i].is_active => ~sessions'[i].is_active]_vars

\* C4 witness: a refresh whose save landed after a concurrent revoke_token
\* has returned success, and the session is still inactive.
C4_Witness ==
    /\ resp.op = "refresh"
    /\ resp.ok
    /\ resp.val \in revoked
    /\ ~sessions[resp.val].is_active

\* C6: two concurrent refresh_access_token calls on one refresh token never
\* both reach their successful return holding different access-token link
\* ids (of which the session can carry only one).
C6_NoDivergentRefresh ==
    \A p, q \in Workers :
        (/\ pc[p] = "refresh_return"
         /\ pc[q] = "refresh_return"
         /\ loc[p].sid = loc[q].sid)
        => loc[p].token.payload.jti = loc[q].token.payload.jti

\* C7: whenever refresh_access_token writes the new link id, the session it
\* writes to is active at that moment.
C7_RefreshWriteIsAtomic ==
    [][\A p \in Workers :
          (pc[p] = "refresh_write" /\ pc'[p] = "refresh_return")
          => sessions[loc[p].sid].is_active]_vars

\* C2 (as claimed): VerifyAccess accepts a token if and only if it is well
\* formed, unexpired, of type access, and its jti is the access_token_jti of
\* a session whose is_active is true.
C2_VerifyIffLinkedToActiveSession ==
    \A t \in Presentable :
        VerifyAccepts(t) <=>
            /\ t.sig = <<PrivateKey, t.payload>>
            /\ now < t.payload.exp
            /\ t.payload.type = "access"
            /\ \E i \in SessionIds :
                  /\ sessions[i].is_active
                  /\ sessions[i].access_token_jti = t.payload.jti

\* C2 (amended): VerifyAccess accepts a token if and only if it is well
\* formed, unexpired, of type access, names a user whose is_active is true,
\* and its jti is the access_token_jti of a session of that user whose
\* is_active is true and whose expires_at has not passed.
C2_VerifyIffLinkedToLiveSessionOfActiveUser ==
    \A t \in Presentable :
        VerifyAccepts(t) <=>
            /\ t.sig = <<PrivateKey, t.payload>>
            /\ now < t.payload.exp
            /\ t.payload.type = "access"
            /\ t.payload.user_id \in Users
            /\ users[t.payload.user_id].is_active
            /\ \E i \in SessionIds :
                  /\ sessions[i].is_active
                  /\ sessions[i].access_token_jti = t.payload.jti
                  /\ sessions[i].user = t.payload.user_id
                  /\ now <= sessions[i].expires_at

\* C2 witness: VerifyAccess has rejected a well-formed, unexpired access
\* token of an active user whose jti is the link id of an active session,
\* because the session is past its expires_at.
C2_Witness ==
    /\ resp.op = "verify"
    /\ ~resp.ok
    /\ resp.arg \in IssuedTokens
    /\ now < resp.arg.payload.exp
    /\ resp.arg.payload.type = "access"
    /\ users[resp.arg.payload.user_id].is_active
    /\ \E i \in SessionIds :
          /\ sessions[i].is_active
          /\ sessions[i].access_token_jti = resp.arg.payload.jti
          /\ now > sessions[i].expires_at

\* the jti of the access token issued last for a session
LatestJti(sid) ==
    CHOOSE j \in {t.payload.jti : t \in AccessTokensOf(sid)} :
        \A t \in AccessTokensOf(sid) : t.payload.jti <= j

\* C3: after a refresh_access_token call has returned success for a session,
\* VerifyAccess accepts no access token of that session except the one the
\* call returned: every token linked earlier is rejected.
C3_OnlyNewTokenVerifies ==
    (resp.op = "refresh" /\ resp.ok) =>
        \A t \in AccessTokensOf(resp.val) :
            VerifyAccepts(t) => t.payload.jti = LatestJti(resp.val)

\* C3 witness: a refresh has returned; the token linked before it has not
\* reached its exp and is rejected, while the returned token is accepted.
C3_Witness ==
    /\ resp.op = "refresh"
    /\ resp.ok
    /\ \E old, new \in AccessTokensOf(resp.val) :
          /\ old.payload.jti < new.payload.jti
          /\ now < old.payload.exp
          /\ ~VerifyAccepts(old)
          /\ VerifyAccepts(new)

\* C5: a refresh_access_token call made with an expired refresh token whose
\* session is active fails, leaves the session inactive, and the same token
\* is refused again afterwards.
C5_ExpiredRefreshDeactivates ==
    [][\A i \in issued :
          (/\ Idle("w1")
           /\ i.token.payload.type = "refresh"
           /\ i.token.payload.exp <= now
           /\ sessions[i.sid].is_active
           /\ resp' # resp
           /\ resp'.op = "refresh"
           /\ resp'.arg = i.token)
          => (/\ ~resp'.ok
              /\ ~sessions'[i.sid].is_active
              /\ ~RefreshAccepts(i.token)')]_vars

\* C8: a revoke_token call that finds an active session with the token sets
\* that session's is_active to false, changes nothing else and returns True;
\* a call that finds none (in particular a second call with the same token)
\* returns False and changes no session row.
C8_RevokeIdempotent ==
    [][(resp' # resp /\ resp'.op = "revoke") =>
          LET hit == {i \in SessionIds : /\ sessions[i].refresh_token = resp'.arg
                                         /\ sessions[i].is_active}
          IN IF hit # {}
             THEN /\ resp'.ok
                  /\ \A i \in SessionIds :
                        sessions'[i] = IF i \in hit
                                       THEN [sessions[i] EXCEPT !.is_active = FALSE]
                                       ELSE sessions[i]
             ELSE /\ ~resp'.ok
                  /\ sessions' = sessions]_vars

\* C8 witness: revoke_token has returned False for the refresh token of a
\* session that an earlier call revoked.
C8_Witness ==
    /\ resp.op = "revoke"
    /\ ~resp.ok
    /\ \E sid \in revoked :
          sessions[sid].refresh_token = resp.arg /\ ~sessions[sid].is_active

\* C9: revoke_all_user_tokens(u) deactivates exactly the sessions of u that
\* are active, returns their number, leaves every other row as it was, and
\* a call that follows it at once returns 0.
C9_RevokeAllCountsAndFrames ==
    [][\A u \in Users :
          RevokeAllUserTokens("w1", u) =>
              LET hit == {i \in SessionIds : sessions[i].user = u
                                               /\ sessions[i].is_active}
              IN /\ resp'.val = Cardinality(hit)
                 /\ \A i \in SessionIds :
                       sessions'[i] = IF i \in hit
                                      THEN [sessions[i] EXCEPT !.is_active = FALSE]
                                      ELSE sessions[i]
                 /\ Len(sessions') = Len(sessions)
                 /\ Cardinality({i \in SessionIds : sessions'[i].user = u
                                        /\ sessions'[i].is_active}) = 0]_vars

\* C9 witness: revoke_all_user_tokens has returned 1, the session of that
\* user is inactive and the session of the other user is still active.
C9_Witness ==
    /\ resp.op = "revoke_all"
    /\ resp.val = 1
    /\ \E i, j \in SessionIds :
          /\ sessions[i].user # sessions[j].user
          /\ ~sessions[i].is_active
          /\ sessions[j].is_active

\* C10: once a password change has succeeded, every session the user had is
\* inactive and every token issued for those sessions, the access token of
\* the request included, is rejected in every later state; and in any step
\* the password changes only together with the deactivation of all the
\* user's sessions, while a failed request changes neither.
C10_PasswordChangeRevokesAll ==
    /\ [](\A sid \in pwRevoked :
            /\ ~sessions[sid].is_active
            /\ \A t \in IssuedFor(sid) : ~VerifyAccepts(t) /\ ~RefreshAccepts(t))
    /\ [][/\ \A u \in Users :
               users'[u].password # users[u].password =>
                   \A i \in SessionIds :
                       sessions[i].user = u => ~sessions'[i].is_active
          /\ (resp' # resp /\ resp'.op = "change_password") =>
                IF resp'.ok
                THEN \A i \in SessionIds :
                        sessions[i].user = resp'.arg.payload.user_id
                            => ~sessions'[i].is_active
                ELSE users' = users /\ sessions' = sessions]_vars

\* C10 witness: a password change has succeeded for a user with two
\* sessions; both are inactive and the access token that made the request
\* is now rejected.
C10_Witness ==
    /\ resp.op = "change_password"
    /\ resp.ok
    /\ Cardinality(pwRevoked) = 2
    /\ \A sid \in pwRevoked : ~sessions[sid].is_active
    /\ ~VerifyAccepts(resp.arg)

\* C11: a create_token_pair that succeeds adds exactly one session row, with
\* is_active true and owned by the user, and leaves every row that existed
\* before, of that user or of another, exactly as it was.
C11_CreateAddsOneRowOnly ==
    [][\A u \in Users, pw \in Passwords :
          (LoginWithin("w1", u, pw, MaxJtiCalls) /\ resp'.ok) =>
              /\ Len(sessions') = Len(sessions) + 1
              /\ \A i \in SessionIds : sessions'[i] = sessions[i]
              /\ sessions'[Len(sessions')].is_active
              /\ sessions'[Len(sessions')].user = u]_vars

\* C11 witness: a second login of the same user has succeeded and both of
\* the user's sessions are active.
C11_Witness ==
    /\ resp.op = "login"
    /\ resp.ok
    /\ resp.val = 2
    /\ sessions[1].user = sessions[2].user
    /\ sessions[1].is_active
    /\ sessions[2].is_active

\* C12: a refresh_access_token call that succeeds changes the session table
\* in one step only, its save, and there only the access_token_jti of the
\* session it read: that session's refresh_token, expires_at, is_active and
\* user, and every other row, stay as they are.
C12_RefreshWritesLinkIdOnly ==
    [][\A p \in Workers :
          /\ (Idle(p) /\ pc'[p] = "refresh_write") => sessions' = sessions
          /\ (pc[p] = "refresh_write" /\ pc'[p] = "refresh_return") =>
                /\ Len(sessions') = Len(sessions)
                /\ \A i \in SessionIds :
                      IF i = loc[p].sid
                      THEN /\ sessions'[i].access_token_jti = loc[p].token.payload.jti
                           /\ sessions'[i].refresh_token = sessions[i].refresh_token
                           /\ sessions'[i].expires_at = sessions[i].expires_at
                           /\ sessions'[i].is_active = sessions[i].is_active
                           /\ sessions'[i].user = sessions[i].user
                      ELSE sessions'[i] = sessions[i]
          /\ (pc[p] = "refresh_return" /\ pc'[p] = "idle") => sessions' = sessions]_vars

\* C12 witness: a refresh has returned success; the session carries a link
\* id newer than that of its first access token, and still the refresh
\* token it was created with, the same expires_at and is_active true, and
\* the user's other session, created before the refresh, still carries the
\* link id of its only access token.
C12_Witness ==
    /\ resp.op = "refresh"
    /\ resp.ok
    /\ \E t \in AccessTokensOf(resp.val) :
          t.payload.jti < sessions[resp.val].access_token_jti
    /\ sessions[resp.val].refresh_token = resp.arg
    /\ sessions[resp.val].expires_at = resp.arg.payload.exp
    /\ sessions[resp.val].is_active
    /\ \E j \in SessionIds \ {resp.val} :
          /\ sessions[j].user = sessions[resp.val].user
          /\ sessions[j].is_active
          /\ sessions[j].access_token_jti < sessions[resp.val].access_token_jti
          /\ \A t \in AccessTokensOf(j) :
                t.payload.jti = sessions[j].access_token_jti

\* the refresh token a session was created with
RefreshTokensOf(sid) == {t \in IssuedFor(sid) : t.payload.type = "refresh"}

\* C13 (as claimed): a session keeps the refresh token it was created with,
\* and while the session is active and not past its expires_at a
\* refresh_access_token call with that token is accepted.
C13_RefreshTokenReusableWhileSessionLive ==
    \A sid \in SessionIds :
        /\ RefreshTokensOf(sid) = {sessions[sid].refresh_token}
        /\ (sessions[sid].is_active /\ now <= sessions[sid].expires_at)
              => RefreshAccepts(sessions[sid].refresh_token)

\* C13 (amended): a session keeps the refresh token it was created with, and
\* while the session is active, its owner is active and the token's exp has
\* not been reached, a refresh_access_token call with that token is
\* accepted, however often it was used before.
C13_RefreshTokenReusableWhileTokenLive ==
    \A sid \in SessionIds :
        /\ RefreshTokensOf(sid) = {sessions[sid].refresh_token}
        /\ (/\ sessions[sid].is_active
            /\ users[sessions[sid].user].is_active
            /\ now < sessions[sid].refresh_token.payload.exp)
              => RefreshAccepts(sessions[sid].refresh_token)

\* C13 witness: the second refresh made with one refresh token has returned
\* a third access token for the session, and the token would be accepted
\* once more.
C13_Witness ==
    /\ resp.op = "refresh"
    /\ resp.ok
    /\ Cardinality(AccessTokensOf(resp.val)) = 3
    /\ RefreshTokensOf(resp.val) = {resp.arg}
    /\ RefreshAccepts(resp.arg)

\* C14: refresh_access_token accepts no token whose type is not 'refresh'
\* and VerifyAccess accepts no token whose type is not 'access'; a call that
\* was given a token of the wrong type fails and leaves the session table
\* as it was.
C14_TokenKindEnforced ==
    /\ [](\A t \in Presentable :
            /\ t.payload.type # "refresh" => ~RefreshAccepts(t)
            /\ t.payload.type # "access" => ~VerifyAccepts(t))
    /\ [][/\ (resp' # resp /\ resp'.op = "refresh"
                /\ resp'.arg.payload.type # "refresh")
               => (~resp'.ok /\ sessions' = sessions)
          /\ (resp' # resp /\ resp'.op = "verify"
                /\ resp'.arg.payload.type # "access")
               => (~resp'.ok /\ sessions' = sessions)]_vars

\* C14 witness: refresh_access_token has refused, for its type, an access
\* token that VerifyAccess accepts, while the refresh token of the same
\* active session is refused by VerifyAccess for its type.
C14_Witness ==
    /\ resp.op = "refresh"
    /\ ~resp.ok
    /\ resp.detail = "Invalid refresh token type"
    /\ VerifyAccepts(resp.arg)
    /\ \E i \in issued :
          /\ resp.arg \in AccessTokensOf(i.sid)
          /\ i.token.payload.type = "refresh"
          /\ RefreshAccepts(i.token)
          /\ _authenticate_token(i.token) = "Invalid token payload"

\* every token that has been encoded: those handed to a client and those a
\* call in progress still holds
Minted ==
    IssuedTokens \cup {loc[p].token : p \in {q \in Workers : loc[q].token # NoToken}}

\* C15: the two jti of a pair made by create_token_pair differ, and no two
\* tokens ever encoded, by create_token_pair or by refresh_access_token,
\* carry the same jti.
C15_EveryJtiFresh ==
    /\ \A a, b \in Minted : a # b => a.payload.jti # b.payload.jti
    /\ \A sid \in SessionIds :
          sessions[sid].refresh_token.payload.jti # sessions[sid].access_token_jti

\* C15 witness: create_token_pair has made a second pair for a user after a
\* refresh had minted an access token for the user's first session; every
\* earlier jti is older than the two of the new pair.
C15_Witness ==
    /\ resp.op = "login"
    /\ resp.ok
    /\ resp.val = 2
    /\ sessions[1].user = sessions[2].user
    /\ Cardinality(AccessTokensOf(1)) = 2
    /\ \A t \in IssuedFor(1) :
          /\ t.payload.jti < sessions[2].access_token_jti
          /\ t.payload.jti < sessions[2].refresh_token.payload.jti

\* C16: every refresh token that create_token_pair has returned is the
\* refresh_token of exactly one session row, every session row carries a
\* refresh token that was returned for it, and a login answered with
\* success names a stored row; a create_token_pair that failed has stored
\* no row and returned no token.
C16_OneRowPerReturnedRefreshToken ==
    /\ \A i \in issued :
          i.token.payload.type = "refresh" =>
              Cardinality({s \in SessionIds : sessions[s].refresh_token = i.token}) = 1
    /\ \A s \in SessionIds :
          [token |-> sessions[s].refresh_token, sid |-> s] \in issued
    /\ Cardinality({i \in issued : i.token.payload.type = "refresh"}) = Len(sessions)
    /\ (resp.op = "login" /\ resp.ok) => resp.val \in SessionIds

\* C16 witness: after one stored session, a login whose create_token_pair
\* failed was answered with the server error; there is still one row and
\* one returned refresh token.
C16_Witness ==
    /\ resp.op = "login"
    /\ ~resp.ok
    /\ resp.detail = "Login failed due to server error"
    /\ Len(sessions) = 1
    /\ Cardinality({i \in issued : i.token.payload.type = "refresh"}) = 1

\* C17: no two session rows share an access_token_jti or a refresh_token;
\* when create_token_pair completes, the new session's access_token_jti is
\* the jti of the access token it returned; and when a refresh_access_token
\* call completes that minted the newest access token of its session, with
\* no other call in progress, the session's access_token_jti is the jti of
\* that token.
C17_LinkIdsUniqueAndCurrent ==
    /\ [](\A i, j \in SessionIds :
            i # j => /\ sessions[i].access_token_jti # sessions[j].access_token_jti
                     /\ sessions[i].refresh_token # sessions[j].refresh_token)
    /\ [][\A p \in Workers :
            /\ (/\ pc[p] = "refresh_return"
                /\ pc'[p] = "idle"
                /\ \A q \in Workers \ {p} : Idle(q)
                /\ \A t \in AccessTokensOf(loc[p].sid) :
                      t.payload.jti < loc[p].token.payload.jti)
               => sessions'[loc[p].sid].access_token_jti = loc[p].token.payload.jti
            /\ (Idle(p) /\ Len(sessions') = Len(sessions) + 1)
               => \E i \in issued' :
                     /\ i.sid = Len(sessions')
                     /\ i.token.payload.type = "access"
                     /\ i.token.payload.jti = sessions'[Len(sessions')].access_token_jti]_vars

\* C18: in every state in which the current time is past a session's
\* expires_at, VerifyAccess accepts no access token issued for the session
\* and refresh_access_token accepts no token issued for it; and no step
\* changes the expires_at of a session, so this stays so.
C18_ExpiredSessionStaysDead ==
    /\ [](\A sid \in SessionIds :
            now > sessions[sid].expires_at =>
                \A t \in IssuedFor(sid) : ~VerifyAccepts(t) /\ ~RefreshAccepts(t))
    /\ [][\A sid \in SessionIds :
            sessions'[sid].expires_at = sessions[sid].expires_at]_vars

\* C18 witness: the clock is past the expires_at of a session that is still
\* is_active and was refreshed; VerifyAccess has rejected its newest access
\* token, whose own exp is not reached, and its refresh token is refused.
C18_Witness ==
    /\ resp.op = "verify"
    /\ ~resp.ok
    /\ \E sid \in SessionIds :
          /\ now > sessions[sid].expires_at
          /\ sessions[sid].is_active
          /\ resp.arg \in AccessTokensOf(sid)
          /\ resp.arg.payload.jti = sessions[sid].access_token_jti
          /\ now < resp.arg.payload.exp
          /\ Cardinality(AccessTokensOf(sid)) > 1
          /\ ~RefreshAccepts(sessions[sid].refresh_token)

\* the positions at which a whitespace-separated part of a header begins
PartStarts(text) ==
    {i \in 1..Len(text) : text[i] # " " /\ (i = 1 \/ text[i - 1] = " ")}

\* exactly two parts, the first of them 'bearer' in any case
TwoPartsFirstBearer(text) ==
    /\ Cardinality(PartStarts(text)) = 2
    /\ LET f == CHOOSE i \in PartStarts(text) : \A j \in PartStarts(text) : i <= j
       IN text[f] = "Bearer" /\ text[f + 1] = " "

\* C19: authenticate returns None exactly when the Authorization header is
\* absent or the empty string; for a header that is not exactly two
\* whitespace-separated parts with the first equal to 'bearer' in any case,
\* it raises an authentication failure.
C19_NoneIffHeaderAbsentOrEmpty ==
    resp.op = "authenticate" =>
        /\ resp.detail = "None" <=> (~resp.arg.present \/ Len(resp.arg.text) = 0)
        /\ (/\ resp.arg.present
            /\ Len(resp.arg.text) > 0
            /\ ~TwoPartsFirstBearer(resp.arg.text))
              => resp.detail = "Authentication failed"

\* C19 witness: a request whose header is 'Basic' followed by an access
\* token that VerifyAccess accepts was answered with an authentication
\* failure.
C19_Witness ==
    /\ resp.op = "authenticate"
    /\ resp.arg.present
    /\ resp.arg.text = <<"Basic", " ", "T">>
    /\ VerifyAccepts(resp.arg.token)
    /\ resp.detail = "Authentication failed"

\* why a token must be refused in the current state: its signature does not
\* verify, its exp is reached, or it is a sound access token of an active
\* user that no active, unexpired session links to
ErrorKind(t) ==
    IF t.sig # <<PrivateKey, t.payload>> THEN "malformed"
    ELSE IF t.payload.exp <= now THEN "expired"
    ELSE IF /\ t.payload.type = "access"
            /\ t.payload.user_id \in Users
            /\ users[t.payload.user_id].is_active
            /\ ~\E i \in SessionIds :
                  /\ sessions[i].is_active
                  /\ sessions[i].access_token_jti = t.payload.jti
                  /\ sessions[i].user = t.payload.user_id
                  /\ now <= sessions[i].expires_at
         THEN "session"
    ELSE "other"

\* C20: VerifyAccess tells its caller the kind of failure: two tokens
\* refused for different reasons among expired, malformed and no valid
\* session get different answers.
C20_DistinctErrorKinds ==
    \A a, b \in Presentable :
        (/\ ErrorKind(a) # "other"
         /\ ErrorKind(b) # "other"
         /\ ErrorKind(a) # ErrorKind(b))
            => authenticate(a) # authenticate(b)

\* C21: whenever the token and session checks of VerifyAccess pass,
\* authenticate returns the user and the payload, whether the update of the
\* last-login columns succeeded or raised; the failure is only logged.
C21_LoginInfoFailureIsHarmless ==
    [][\A t \in Presentable :
          (VerifyAccess("w1", t) /\ _authenticate_token(t) = "ok") =>
              /\ resp'.ok
              /\ resp'.detail = "ok"
              /\ resp'.val = NoTime <=>
                    resp'.log = "Failed to update user login info"]_vars

\* C21 witness: VerifyAccess has accepted an access token although the
\* update of last_login raised and nothing was written.
C21_Witness ==
    /\ resp.op = "verify"
    /\ resp.ok
    /\ resp.arg.payload.type = "access"
    /\ resp.val = NoTime
    /\ resp.log = "Failed to update user login info"

\* C22: at the refresh endpoint a token or session error (malformed,
\* expired, wrong type, no active session, missing token) is answered with
\* a 401 or 400 envelope, and an internal error such as a failure of the
\* store is answered with a generic 500 envelope.
C22_RefreshErrorsMapped ==
    (resp.op = "refresh" /\ ~resp.ok) =>
        LET e == RefreshTokenAPIView_post(resp)
        IN IF resp.detail = "DatabaseError"
           THEN e.status_code = 500
           ELSE e.status_code \in {400, 401}

\* C23: a failed login is answered the same way whether the email has no
\* account or the password is wrong: of two failed logins made one after
\* the other for these two reasons, the second gets the answer of the first.
C23_LoginFailuresIndistinguishable ==
    [][(/\ resp.op = "login" /\ ~resp.ok
        /\ resp'.op = "login" /\ ~resp'.ok
        /\ resp.log \in {"invalid_password", "user_not_found"}
        /\ resp'.log \in {"invalid_password", "user_not_found"})
          => resp'.detail = resp.detail]_vars

\* both environment variables hold a text (an empty value counts as not set)
EnvPairSet == Truthy(keys.env.private) /\ Truthy(keys.env.public)

\* both key files exist and can be read
FilePairReadable ==
    /\ keys.files.private.exists /\ keys.files.private.readable
    /\ keys.files.public.exists /\ keys.files.public.readable

\* C24: get_or_generate_keys returns the pair of the environment when both
\* variables are set; otherwise the contents of the two key files when both
\* exist and can be read; otherwise a generated pair; and the two halves it
\* returns never come from two sources.
C24_KeyPriorityOrder ==
    \A i \in 1..Len(keys.returned) :
        LET pair == keys.returned[i]
        IN /\ EnvPairSet =>
                /\ pair.private = keys.env.private.text
                /\ pair.public = keys.env.public.text
           /\ (~EnvPairSet /\ FilePairReadable) =>
                /\ pair.private = keys.files.private.text
                /\ pair.public = keys.files.public.text
           /\ (~EnvPairSet /\ ~FilePairReadable) =>
                /\ pair.private[2] = "generated"
                /\ pair.public = PublicOf(pair.private)
           /\ pair.private[2] = pair.public[2]

\* C24 witness: only the private key is set in the environment and only
\* the private key file can be read; the call has returned a generated
\* pair, with neither of them in it.
C24_Witness ==
    /\ Len(keys.returned) > 0
    /\ Truthy(keys.env.private)
    /\ ~Truthy(keys.env.public)
    /\ keys.files.private.readable
    /\ keys.files.public.exists
    /\ ~keys.files.public.readable
    /\ keys.returned[1].private = <<"private", "generated", 1>>
    /\ keys.returned[1].public = <<"public", "generated", 1>>

\* C25: with no keys in the environment and no key files, every call of
\* get_or_generate_keys in one process returns the same pair, so that a
\* token signed with the private key of one call verifies with the public
\* key of any other.
C25_GeneratedPairIsCached ==
    (/\ ~keys.env.private.set /\ ~keys.env.public.set
     /\ ~keys.files.private.exists /\ ~keys.files.public.exists) =>
        \A i, j \in 1..Len(keys.returned) :
            /\ keys.returned[i] = keys.returned[j]
            /\ SignatureValid(Encode(AccessPayload("u1", 1),
                                     keys.returned[i].private),
                              keys.returned[j].public)

C27_RowsAreNeverDeleted ==
    /\ [][/\ Len(sessions') >= Len(sessions)
          /\ \A i \in SessionIds :
                /\ sessions'[i].user = sessions[i].user
                /\ sessions'[i].refresh_token = sessions[i].refresh_token
                /\ sessions'[i].expires_at = sessions[i].expires_at]_vars
    /\ [](\A sid \in revoked \cup pwRevoked :
            sid \in SessionIds /\ ~sessions[sid].is_active)

\* C27 witness: one session was revoked by revoke_token, then a password
\* change revoked the user's sessions; both rows are still stored, inactive.
C27_Witness ==
    /\ Len(sessions) = 2
    /\ revoked # {}
    /\ pwRevoked = {1, 2}
    /\ ~sessions[1].is_active
    /\ ~sessions[2].is_active

\* C28: a login with correct credentials made after a session was revoked
\* by logout is not refused for its credentials, and when it succeeds it
\* creates a new active session of the user, distinct from every revoked
\* one, while each revoked session stays inactive and every token issued
\* for it stays rejected.
C28_LoginAfterLogout ==
    [][\A u \in Users, pw \in Passwords :
          (/\ LoginWithin("w1", u, pw, MaxJtiCalls)
           /\ django_authenticate(u, pw)
           /\ revoked # {}) =>
              /\ resp'.ok \/ resp'.detail = "Login failed due to server error"
              /\ resp'.ok =>
                    /\ resp'.val \notin revoked
                    /\ resp'.val \notin SessionIds
                    /\ sessions'[resp'.val].is_active
                    /\ sessions'[resp'.val].user = u
                    /\ \A sid \in revoked :
                          /\ ~sessions'[sid].is_active
                          /\ sessions'[sid].refresh_token
                                # sessions'[resp'.val].refresh_token
                          /\ \A t \in IssuedFor(sid) :
                                ~VerifyAccepts(t)' /\ ~RefreshAccepts(t)']_vars

\* C28 witness: the user's first session was revoked by revoke_token and the
\* user has logged in again: the second session is active, the first is
\* not, and the tokens of the first are rejected.
C28_Witness ==
    /\ resp.op = "login"
    /\ resp.ok
    /\ resp.val = 2
    /\ 1 \in revoked
    /\ sessions[1].user = sessions[2].user
    /\ ~sessions[1].is_active
    /\ sessions[2].is_active
    /\ \A t \in IssuedFor(1) : ~VerifyAccepts(t) /\ ~RefreshAccepts(t)
    /\ \E t \in IssuedFor(2) : VerifyAccepts(t)

\* C29: a login that succeeds hands out an access token and a refresh token
\* that both decode, the refresh token lives strictly longer than the access
\* token, and the expires_at of the new session is the exp of the refresh
\* token.
C29_LoginReturnsDecodablePair ==
    [][(resp' # resp /\ resp'.ok /\ Login("w1", "u1", "pw1")) =>
          LET new == {i.token : i \in issued' \ issued}
          IN /\ Cardinality(new) = 2
             /\ \E a, r \in new :
                   /\ a.payload.type = "access"
                   /\ r.payload.type = "refresh"
                   /\ Decode(a, PublicKey) = "ok"
                   /\ Decode(r, PublicKey) = "ok"
                   /\ r.payload.exp - r.payload.iat > a.payload.exp - a.payload.iat
                   /\ r.payload.exp > a.payload.exp
                   /\ sessions'[resp'.val].refresh_token = r
                   /\ sessions'[resp'.val].expires_at = r.payload.exp]_vars

\* C29 witness: a second login, made after the clock has advanced, has
\* succeeded; its session expires a refresh lifetime from now.
C29_Witness ==
    /\ resp.op = "login"
    /\ resp.ok
    /\ resp.val = 2
    /\ sessions[2].expires_at = sessions[2].refresh_token.payload.exp
    /\ sessions[2].expires_at > sessions[1].expires_at
    /\ \E t \in AccessTokensOf(2) :
          t.payload.exp < sessions[2].expires_at /\ t.payload.iat > 0

\* C30: a VerifyAccess creates no session row and modifies none, whatever
\* its outcome; in particular the row of a session found past its expires_at
\* stays as it was, is_active included.
C30_VerifyLeavesSessionsAlone ==
    [][(resp' # resp /\ resp'.op = "verify" /\ VerifyAccess("w1", resp'.arg)) =>
          /\ Len(sessions') = Len(sessions)
          /\ sessions' = sessions]_vars

\* C30 witness: an unexpired access token was rejected at the session check
\* because its session is past expires_at, and the row is still active.
C30_Witness ==
    /\ resp.op = "verify"
    /\ ~resp.ok
    /\ resp.log = "Token session invalid or expired"
    /\ \E i \in DOMAIN sessions :
          /\ sessions[i].access_token_jti = resp.arg.payload.jti
          /\ sessions[i].user = resp.arg.payload.user_id
          /\ sessions[i].is_active
          /\ sessions[i].expires_at <= now
          /\ users[sessions[i].user].is_active

\* the reasons, other than the expiry of the session, for which
\* refresh_access_token refuses a token: it does not decode, it is not a
\* refresh token, its user is unknown or inactive, or no active session of
\* that user holds it
RefusedBeforeExpiryCheck(token) ==
    \/ Decode(token, PublicKey) # "ok"
    \/ token.payload.type # "refresh"
    \/ token.payload.user_id \notin DOMAIN users
    \/ ~users[token.payload.user_id].is_active
    \/ ~\E i \in DOMAIN sessions :
           /\ sessions[i].refresh_token = token
           /\ sessions[i].user = token.payload.user_id
           /\ sessions[i].is_active

\* C31: a refresh_access_token call that is refused for a reason other than
\* the expiry of the session is answered at once with a failure, changes no
\* session row, makes no jti and issues no token.
C31_RefusedRefreshChangesNothing ==
    [][(/\ resp' # resp
        /\ resp'.op = "refresh"
        /\ RefusedBeforeExpiryCheck(resp'.arg)
        /\ RefreshBegin("w1", resp'.arg))
          => /\ ~resp'.ok
             /\ sessions' = sessions
             /\ issued' = issued
             /\ nextJti' = nextJti
             /\ pc' = pc]_vars

\* C31 witness: the refresh token of an active, unexpired session was
\* refused because its user is inactive, and the session is still active.
C31_Witness ==
    /\ resp.op = "refresh"
    /\ ~resp.ok
    /\ resp.detail = "Invalid refresh token"
    /\ Decode(resp.arg, PublicKey) = "ok"
    /\ ~users[resp.arg.payload.user_id].is_active
    /\ \E i \in DOMAIN sessions :
          /\ sessions[i].refresh_token = resp.arg
          /\ sessions[i].is_active
          /\ ~is_expired(sessions[i])

\* C32: registration is all or nothing: every user that the register
\* endpoint created has a session row, and a register request answered 500
\* leaves the users and the sessions as they were.
C32_RegistrationIsAtomic ==
    /\ [](\A u \in DOMAIN users \ Users :
            \E i \in DOMAIN sessions : sessions[i].user = u)
    /\ [][(/\ resp' # resp
           /\ resp'.op = "register"
           /\ resp'.detail = "Registration failed due to server error")
             => /\ users' = users
                /\ sessions' = sessions
                /\ issued' = issued]_vars

\* C32 witness: a registration was answered 500 after its serializer had
\* passed, and neither a user nor a session was added.
C32_Witness ==
    /\ resp.op = "register"
    /\ resp.detail = "Registration failed due to server error"
    /\ DOMAIN users = Users
    /\ sessions = <<>>

\* C33: with neither key in the environment, once generate_jwt_keys has run
\* with its default options, a call of get_or_generate_keys returns the pair
\* that the command wrote to disk.
C33_CommandKeysAreUsed ==
    [][(/\ GetOrGenerateKeys("w1")
        /\ ~keys.env.private.set
        /\ ~keys.env.public.set
        /\ keys.disk[CommandPath(DefaultOutputDir, "private")] # NoPem)
          => LET pair == keys'.returned[Len(keys'.returned)]
             IN /\ pair.private = keys.disk[CommandPath(DefaultOutputDir, "private")]
                /\ pair.public = keys.disk[CommandPath(DefaultOutputDir, "public")]]_vars

\* C34: of the revoke_token calls that run at the same time for one refresh
\* token at most one returns True: every call that returns True has itself
\* taken the session from active to inactive.
C34_OneRevokeWins ==
    [][\A p \in Workers :
          (RevokeSave(p) /\ resp'.ok) =>
              /\ sessions[loc[p].sid].is_active
              /\ ~sessions'[loc[p].sid].is_active]_vars

\* the access tokens that carry the service's signature and are not expired,
\* for every user and every jti made so far, issued or not
SignedAccessTokens ==
    {Encode(AccessPayload(u, j), PrivateKey) : u \in Users, j \in 1..nextJti}

\* C35: VerifyAccess accepts a token only if its user_id names a user who
\* exists, is active and owns an active session that carries the token's
\* jti; refresh_access_token refuses the refresh token of a user who is not
\* active, whatever the state of the session.
C35_OnlyActiveOwner ==
    /\ \A t \in SignedAccessTokens \cup Presentable :
          VerifyAccepts(t) =>
              /\ t.payload.user_id \in DOMAIN users
              /\ users[t.payload.user_id].is_active
              /\ \E i \in SessionIds :
                    /\ sessions[i].access_token_jti = t.payload.jti
                    /\ sessions[i].user = t.payload.user_id
                    /\ sessions[i].is_active
    /\ \A i \in SessionIds :
          ~users[sessions[i].user].is_active =>
              ~RefreshAccepts(sessions[i].refresh_token)

\* C35 witness: VerifyAccess has refused the access token of a user who was
\* deactivated while the session of the token is active, and the other user,
\* who is active, has no session of that jti.
C35_Witness ==
    /\ resp.op = "verify"
    /\ ~resp.ok
    /\ resp.log = "User not found or inactive"
    /\ \E i \in SessionIds :
          /\ sessions[i].is_active
          /\ ~is_expired(sessions[i])
          /\ sessions[i].user = resp.arg.payload.user_id
          /\ sessions[i].access_token_jti = resp.arg.payload.jti
          /\ ~users[sessions[i].user].is_active
          /\ ~RefreshAccepts(sessions[i].refresh_token)
          /\ \E v \in Users \ {sessions[i].user} :
                /\ users[v].is_active
                /\ ~VerifyAccepts(Encode(AccessPayload(v,
                          sessions[i].access_token_jti), PrivateKey))

\* C36: the logout endpoint deactivates only a session of the authenticated
\* caller: a logout with the refresh token of another user's session leaves
\* that session active.
C36_LogoutOnlyOwnSession ==
    [][\A view \in LogoutViews, bearer \in IssuedTokens, b \in BOOLEAN :
          (/\ resp'.op = "logout"
           /\ request_user(bearer) \in Users
           /\ Logout("w1", view, bearer, resp'.arg, b))
            => \A i \in SessionIds :
                  (sessions[i].is_active /\ ~sessions'[i].is_active)
                      => sessions[i].user = request_user(bearer)]_vars

\* C37: a logout request that is answered with a failure has changed the
\* is_active of no session; a session is deactivated by logout only when
\* the answer is the 200 success envelope.
C37_FailedLogoutChangesNothing ==
    [][(/\ resp'.op = "logout"
        /\ \E view \in LogoutViews, bearer \in Presentable \cup {NoToken},
              b \in BOOLEAN : Logout("w1", view, bearer, resp'.arg, b)
        /\ ~(resp'.ok /\ resp'.val = 200))
          => \A i \in SessionIds :
                sessions'[i].is_active = sessions[i].is_active]_vars

\* C38: a login that succeeds appends exactly one LoginAttempt row, with
\* success = true, and none with success = false; a login that fails on the
\* credentials appends only rows with success = false and creates no
\* session.
C38_OneAttemptRowPerLogin ==
    [][(/\ resp'.op = "login"
        /\ \E u \in Users \cup {NoAccount}, pw \in Passwords :
              LoginWithin("w1", u, pw, MaxJtiCalls))
          => IF resp'.ok
             THEN resp'.attempts = <<LoginAttempt(TRUE, "")>>
             ELSE resp'.log \in {"invalid_password", "user_not_found"} =>
                    /\ \A i \in 1..Len(resp'.attempts) :
                          ~resp'.attempts[i].success
                    /\ sessions' = sessions]_vars
====
